---- MODULE Spec2Model ----
(***************************************************************************)
(* Model of BinanceTestnetBot (src/main.py): the SMA-crossover signal,     *)
(* the position sizer with its float arithmetic, and the run_bot loop.     *)
(***************************************************************************)
EXTENDS Integers, Sequences, FiniteSets, TLC

(***************************************************************************)
(* Python floats are IEEE-754 doubles.  TLC integers are 32 bits wide, so  *)
(* 53-bit mantissas and their products are kept as natural numbers in      *)
(* little-endian limbs of 15 bits (<<>> is zero, no leading zero limb).    *)
(***************************************************************************)
Base == 2^15

RECURSIVE Pow(_, _)
Pow(b, n) == IF n = 0 THEN 1 ELSE b * Pow(b, n - 1)

RECURSIVE BNorm(_)
BNorm(x) ==
  IF x = <<>> THEN x
  ELSE IF x[Len(x)] = 0 THEN BNorm(SubSeq(x, 1, Len(x) - 1)) ELSE x

RECURSIVE BFromNat(_)
BFromNat(n) == IF n = 0 THEN <<>> ELSE <<n % Base>> \o BFromNat(n \div Base)

Limb(x, i) == IF i <= Len(x) THEN x[i] ELSE 0

RECURSIVE BAddC(_, _, _, _)
BAddC(x, y, i, c) ==
  IF i > Len(x) /\ i > Len(y) THEN (IF c = 0 THEN <<>> ELSE <<c>>)
  ELSE LET s == Limb(x, i) + Limb(y, i) + c
       IN  <<s % Base>> \o BAddC(x, y, i + 1, s \div Base)

BAdd(x, y) == BAddC(x, y, 1, 0)

RECURSIVE BSubB(_, _, _, _)
BSubB(x, y, i, b) ==
  IF i > Len(x) THEN <<>>
  ELSE LET d == Limb(x, i) - Limb(y, i) - b
       IN  <<IF d < 0 THEN d + Base ELSE d>>
             \o BSubB(x, y, i + 1, IF d < 0 THEN 1 ELSE 0)

\* x - y for x >= y
BSub(x, y) == BNorm(BSubB(x, y, 1, 0))

RECURSIVE BCmpFrom(_, _, _)
BCmpFrom(x, y, i) ==
  IF i = 0 THEN 0
  ELSE IF x[i] < y[i] THEN -1
  ELSE IF x[i] > y[i] THEN 1
  ELSE BCmpFrom(x, y, i - 1)

\* -1, 0, 1 as x <, =, > y
BCmp(x, y) ==
  IF Len(x) < Len(y) THEN -1
  ELSE IF Len(x) > Len(y) THEN 1
  ELSE BCmpFrom(x, y, Len(x))

RECURSIVE BMulLimbC(_, _, _, _)
BMulLimbC(x, d, i, c) ==
  IF i > Len(x) THEN (IF c = 0 THEN <<>> ELSE <<c>>)
  ELSE LET p == x[i] * d + c
       IN  <<p % Base>> \o BMulLimbC(x, d, i + 1, p \div Base)

\* x * d for a single limb d
BMulLimb(x, d) == BNorm(BMulLimbC(x, d, 1, 0))

BShiftLimbs(x, n) == IF x = <<>> THEN x ELSE [i \in 1..n |-> 0] \o x

RECURSIVE BMulFrom(_, _, _)
BMulFrom(x, y, i) ==
  IF i > Len(y) THEN <<>>
  ELSE BAdd(BShiftLimbs(BMulLimb(x, y[i]), i - 1), BMulFrom(x, y, i + 1))

BMul(x, y) == BMulFrom(x, y, 1)

RECURSIVE BitLenNat(_)
BitLenNat(n) == IF n = 0 THEN 0 ELSE 1 + BitLenNat(n \div 2)

BBitLen(x) ==
  IF x = <<>> THEN 0 ELSE 15 * (Len(x) - 1) + BitLenNat(x[Len(x)])

\* bit i (1 = least significant) of x
BBit(x, i) == (Limb(x, ((i - 1) \div 15) + 1) \div Pow(2, (i - 1) % 15)) % 2

\* x * 2^n
BShl(x, n) == BShiftLimbs(BMulLimb(x, Pow(2, n % 15)), n \div 15)

\* long division of a by b over the bits i down to lo + 1 of a, from the
\* quotient and remainder qr = <<q, r>> of the bits above i
RECURSIVE BDivBits(_, _, _, _, _)
BDivBits(a, b, i, lo, qr) ==
  IF i = lo THEN qr
  ELSE LET r2 == BAdd(BAdd(qr[2], qr[2]), BFromNat(BBit(a, i)))
           q2 == BAdd(qr[1], qr[1])
       IN  IF BCmp(r2, b) >= 0
             THEN BDivBits(a, b, i - 1, lo, <<BAdd(q2, <<1>>), BSub(r2, b)>>)
             ELSE BDivBits(a, b, i - 1, lo, <<q2, r2>>)

\* the same, limb j of a down to limb 1
RECURSIVE BDivLimbs(_, _, _, _)
BDivLimbs(a, b, j, qr) ==
  IF j = 0 THEN qr
  ELSE BDivLimbs(a, b, j - 1, BDivBits(a, b, 15 * j, 15 * (j - 1), qr))

\* <<floor(a / b), a mod b>> for b > 0, by binary long division
BDivMod(a, b) == BDivLimbs(a, b, Len(a), <<<<>>, <<>>>>)

\* floor(x / 2^n)
BShr(x, n) == BDivMod(x, BShl(<<1>>, n))[1]

(***************************************************************************)
(* A float is (-1)^s * m * 2^e with 2^52 <= m < 2^53, or Zero.  Inputs are *)
(* bounded so that no exponent leaves the normal range; infinities, NaN    *)
(* and subnormals do not occur in the sizer.                               *)
(***************************************************************************)
MantDig == 53

Zero == [s |-> 0, m |-> <<>>, e |-> 0]

\* the double nearest (ties to even) to (-1)^s * (n + f) * 2^e, where
\* 0 <= f < 1 and sticky says f > 0 (only used with n of 55 bits or more)
RoundTo(s, n, sticky, e) ==
  IF n = <<>> THEN Zero
  ELSE LET L == BBitLen(n)
       IN  IF L <= MantDig
             THEN [s |-> s, m |-> BShl(n, MantDig - L), e |-> e - (MantDig - L)]
             ELSE LET sh   == L - MantDig
                      dm   == BDivMod(n, BShl(<<1>>, sh))
                      c    == BCmp(dm[2], BShl(<<1>>, sh - 1))
                      up   == c > 0 \/ (c = 0 /\ (sticky \/ BBit(dm[1], 1) = 1))
                      m1   == IF up THEN BAdd(dm[1], <<1>>) ELSE dm[1]
                  IN  IF BBitLen(m1) > MantDig
                        THEN [s |-> s, m |-> BShr(m1, 1), e |-> e + sh + 1]
                        ELSE [s |-> s, m |-> m1, e |-> e + sh]

\* the double nearest to (-1)^s * (a / b) * 2^e for naturals a, b > 0
RoundRatio(s, a, b, e) ==
  IF a = <<>> THEN Zero
  ELSE LET d  == MantDig + 2 + BBitLen(b) - BBitLen(a)
           k  == IF d > 0 THEN d ELSE 0
           dm == BDivMod(BShl(a, k), b)
       IN  RoundTo(s, dm[1], dm[2] # <<>>, e - k)

\* x / y on floats, y # 0
FDiv(x, y) ==
  IF x.m = <<>> THEN Zero
  ELSE RoundRatio((x.s + y.s) % 2, x.m, y.m, x.e - y.e)

\* x * y on floats
FMul(x, y) ==
  IF x.m = <<>> \/ y.m = <<>> THEN Zero
  ELSE RoundTo((x.s + y.s) % 2, BMul(x.m, y.m), FALSE, x.e + y.e)

\* -1, 0, 1 as x <, =, > y on floats
FCmp(x, y) ==
  LET sgn(z) == IF z.m = <<>> THEN 0 ELSE IF z.s = 1 THEN -1 ELSE 1
      mag    == IF x.e < y.e THEN -1 ELSE IF x.e > y.e THEN 1 ELSE BCmp(x.m, y.m)
  IN  IF sgn(x) < sgn(y) THEN -1
      ELSE IF sgn(x) > sgn(y) THEN 1
      ELSE IF sgn(x) = 0 THEN 0
      ELSE sgn(x) * mag

\* a Python int (sign and magnitude) from a small integer literal
PyInt(i) == [s |-> IF i < 0 THEN 1 ELSE 0, n |-> BFromNat(IF i < 0 THEN -i ELSE i)]

\* int(x): truncation toward zero
Trunc(x) ==
  LET n == IF x.m = <<>> THEN <<>>
           ELSE IF x.e >= 0 THEN BShl(x.m, x.e) ELSE BShr(x.m, -x.e)
  IN  [s |-> IF n = <<>> THEN 0 ELSE x.s, n |-> n]

\* a Python int converted to float (in int * float, int / float)
IntToFloat(k) == RoundTo(k.s, k.n, FALSE, 0)

RECURSIVE BPow10(_)
BPow10(k) == IF k = 0 THEN <<1>> ELSE BMulLimb(BPow10(k - 1), 10)

\* float(str) of the unsigned decimal string with digits d and k decimals,
\* e.g. "0.00001000" is [d |-> 1, k |-> 5]: the nearest double to d / 10^k
ParseFloat(dec) == RoundRatio(0, BFromNat(dec.d), BPow10(dec.k), 0)

\* lines 140-143: quantity = float(int((usdt_amount / price) / step_size) * step_size)
Quantize(quantity, step_size) ==
  FMul(IntToFloat(Trunc(FDiv(quantity, step_size))), step_size)

PositionSize(usdt_amount, price, step_size) ==
  Quantize(FDiv(usdt_amount, price), step_size)


(***************************************************************************)
(* Indicators and signal.  Close prices are integer-valued, so astype      *)
(* (float) is exact, every window sum is exact, and a rolling mean is the  *)
(* correctly rounded quotient sum / window.  Rounding is monotone and two  *)
(* different quotients sum20 / 20 and sum50 / 50 differ by at least 1/100, *)
(* so comparing the float means is comparing the fractions, which are kept *)
(* as [sum, n].  NaN compares False with everything.                       *)
(***************************************************************************)
SMA20Window == 20
SMA50Window == 50
MinRows     == 50

NaN == [nan |-> TRUE]

RECURSIVE SumRange(_, _, _)
SumRange(close, lo, hi) ==
  IF lo > hi THEN 0 ELSE close[hi] + SumRange(close, lo, hi - 1)

\* rolling(window, min_periods=1): a mean over the rows there are
RollingMeanMinPeriods1(close, window, i) ==
  IF i < window THEN [sum |-> SumRange(close, 1, i), n |-> i]
  ELSE [sum |-> SumRange(close, i - window + 1, i), n |-> window]

\* a window moved one candle forward: rows i-window+2 .. i+1
RollingMeanLookAhead(close, window, i) ==
  IF i < window THEN NaN
  ELSE LET hi == IF i < Len(close) THEN i + 1 ELSE i
       IN  [sum |-> SumRange(close, i - window + 2, hi), n |-> hi - (i - window + 1)]

\* df['close'].rolling(window).mean() at row i (1-based)
RollingMean(close, window, i) ==
  IF i < window THEN NaN
  ELSE [sum |-> SumRange(close, i - window + 1, i), n |-> window]

\* <= written for <
MeanLe(a, b) == a # NaN /\ b # NaN /\ a.sum * b.n <= b.sum * a.n

\* a < b on means, as Python compares floats
MeanLt(a, b) == a # NaN /\ b # NaN /\ a.sum * b.n < b.sum * a.n

\* a > b on means
MeanGt(a, b) == a # NaN /\ b # NaN /\ a.sum * b.n > b.sum * a.n

\* the DataFrame built from the klines of a successful fetch, as its rows
calculate_indicators(klines) ==
  [rows |-> [i \in 1..Len(klines) |->
     [close |-> klines[i],
      SMA20 |-> RollingMean(klines, SMA20Window, i),
      SMA50 |-> RollingMean(klines, SMA50Window, i)]]]

None == [none |-> TRUE]

\* the close crossing its short average, on 20 rows or more
generate_signal_close_cross(df) ==
  IF df = None THEN 0
  ELSE IF Len(df.rows) < SMA20Window THEN 0
  ELSE LET prev_row == df.rows[Len(df.rows) - 1]
           curr_row == df.rows[Len(df.rows)]
           px(row)  == [sum |-> row.close, n |-> 1]
       IN  IF MeanLt(px(prev_row), prev_row.SMA20)
              /\ MeanGt(px(curr_row), curr_row.SMA20) THEN 1
           ELSE IF MeanGt(px(prev_row), prev_row.SMA20)
                   /\ MeanLt(px(curr_row), curr_row.SMA20) THEN -1
           ELSE 0

generate_signal(df) ==
  IF df = None THEN 0
  ELSE IF Len(df.rows) < MinRows THEN 0
  ELSE LET prev_row == df.rows[Len(df.rows) - 1]
           curr_row == df.rows[Len(df.rows)]
       IN  IF MeanLt(prev_row.SMA20, prev_row.SMA50)
              /\ MeanGt(curr_row.SMA20, curr_row.SMA50) THEN 1
           ELSE IF MeanGt(prev_row.SMA20, prev_row.SMA50)
                   /\ MeanLt(curr_row.SMA20, curr_row.SMA50) THEN -1
           ELSE 0


(***************************************************************************)
(* Position sizer, lines 127-144, for the responses of a successful price  *)
(* fetch (None after a BinanceAPIException) and symbol-info fetch.         *)
(***************************************************************************)
Dec(d, k) == [d |-> d, k |-> k]

\* step_size = 0.00001  # default
DefaultStepSize == ParseFloat(Dec(1, 5))

RECURSIVE StepSizeOf(_, _)
StepSizeOf(filters, i) ==
  IF i > Len(filters) THEN DefaultStepSize
  ELSE IF filters[i].filterType = "LOT_SIZE" THEN ParseFloat(filters[i].stepSize)
  ELSE StepSizeOf(filters, i + 1)

\* `if price:` is False for None and for 0.0
Truthy(price) == price # None /\ price # Zero

\* the amount itself returned where there is no price
calculate_position_size_no_zero(usdt_amount, price, symbol_info) ==
  IF Truthy(price)
    THEN PositionSize(usdt_amount, price, StepSizeOf(symbol_info.filters, 1))
    ELSE usdt_amount

calculate_position_size(usdt_amount, price, symbol_info) ==
  IF Truthy(price)
    THEN PositionSize(usdt_amount, price, StepSizeOf(symbol_info.filters, 1))
    ELSE Zero

(***************************************************************************)
(* Exchange responses.  Decimal strings are Dec(digits, decimals).         *)
(***************************************************************************)
MaxLen   == 52
MaxTail  == 2
MaxClose == 4

\* n closes: a, then t closes b, then one last close c
Series(n, t, a, b, c) ==
  [i \in 1..n |-> IF i = n THEN c ELSE IF i >= n - t THEN b ELSE a]

KlineInputs ==
  {Series(n, t, a, b, c) : n \in 0..MaxLen, t \in 1..MaxTail,
                            a \in 1..MaxClose, b \in 1..MaxClose, c \in 1..MaxClose}

\* the klines the loop is offered: too short or long enough, with a golden
\* cross, a death cross or no cross at the last candle
LoopKlines ==
  {Series(n, 1, x[1], x[2], x[3]) :
     n \in {MinRows - 1, MinRows + 1},
     x \in {<<2, 1, 4>>, <<3, 4, 1>>, <<2, 2, 2>>}}

symbol == <<"BTC", "USDT">>

\* the base asset stripped instead of the quote asset
base_currency_quote == SelectSeq(symbol, LAMBDA c : c # "BTC")[1]

\* self.symbol.replace('USDT', '')
base_currency == SelectSeq(symbol, LAMBDA c : c # "USDT")[1]

AccountResponses ==
  {[balances |->
      <<[asset |-> "BTC", free |-> b, locked |-> Dec(0, 0)],
        [asset |-> "USDT", free |-> u, locked |-> l]>>] :
     b \in {Dec(0, 0), Dec(15, 1), Dec(123456, 6)},
     u \in {Dec(0, 0), Dec(50, 0), Dec(100, 0)},
     l \in {Dec(0, 0), Dec(10, 0)}}

TickerResponses == {[price |-> p] : p \in {Dec(0, 0), Dec(10, 0), Dec(100000, 0)}}

LotSize(step) == [filterType |-> "LOT_SIZE", stepSize |-> step]
PriceFilter   == [filterType |-> "PRICE_FILTER", tickSize |-> Dec(1, 2)]

SymbolInfoResponses ==
  {[filters |-> f] :
     f \in {<<>>, <<PriceFilter, LotSize(Dec(1, 1))>>, <<LotSize(Dec(1, 5))>>}}

TradeAmounts == {IntToFloat(PyInt(n)) : n \in {-100, 0, 27, 100}}

(***************************************************************************)
(* State of run_bot: its locals, and what the current cycle has done.      *)
(***************************************************************************)
VARIABLES
  pc,             \* where run_bot stands
  trade_amount,   \* parameter of run_bot
  balances,       \* local: dict asset -> [free, locked]
  current_price,  \* local: float or None
  signal,         \* local: <<>> while unbound, <<v>> once assigned
  price,          \* local of calculate_position_size
  quantity,       \* local
  calls,          \* client calls made in the current cycle, in order
  orders,         \* create_order arguments of the current cycle
  log,            \* messages logged in the current cycle
  failed,         \* fetches that raised in the current cycle
  sleeps,         \* time.sleep calls of the current cycle
  arg,            \* argument of a function applied on its own
  ret             \* its result

vars == <<pc, trade_amount, balances, current_price, signal, price, quantity,
          calls, orders, log, failed, sleeps, arg, ret>>

locals == <<balances, current_price, signal, price, quantity>>
pure   == <<arg, ret>>

\* lines 38-45: the assets with a free or locked amount
get_account_balance(account) ==
  LET held == {i \in 1..Len(account.balances) :
                 \/ FCmp(ParseFloat(account.balances[i].free), Zero) > 0
                 \/ FCmp(ParseFloat(account.balances[i].locked), Zero) > 0}
  IN  [a \in {account.balances[i].asset : i \in held} |->
         LET i == CHOOSE j \in held : account.balances[j].asset = a
         IN  [free   |-> ParseFloat(account.balances[i].free),
              locked |-> ParseFloat(account.balances[i].locked)]]

\* a missing asset counted as a large balance
FreeOfDefaultLarge(bal, asset) ==
  IF asset \in DOMAIN bal THEN bal[asset].free ELSE IntToFloat(PyInt(1000))

\* balances.get(asset, {}).get('free', 0)
FreeOf(bal, asset) == IF asset \in DOMAIN bal THEN bal[asset].free ELSE Zero

\* what get_account_balance returns when the client call succeeds
AccountBalances == {get_account_balance(account) : account \in AccountResponses}

\* what get_symbol_price returns when the client call succeeds (lines 53-54)
SymbolPrices == {ParseFloat(ticker.price) : ticker \in TickerResponses}

Init ==
  /\ pc = "get_account_balance"
  /\ trade_amount \in TradeAmounts
  /\ balances = <<>>
  /\ current_price = None
  /\ signal = <<>>
  /\ price = None
  /\ quantity = Zero
  /\ calls = <<>>
  /\ orders = <<>>
  /\ log = <<>>
  /\ failed = {}
  /\ sleeps = 0
  /\ arg = None
  /\ ret = None

\* an exception reaches `except Exception` of the loop
Raise(fetch) ==
  /\ pc' = "except"
  /\ failed' = failed \cup {fetch}

\* a cycle that keeps the balances of the previous cycle when it has some
GetAccountBalanceCached ==
  /\ pc = "get_account_balance"
  /\ orders' = <<>>
  /\ sleeps' = 0
  /\ current_price' = None
  /\ quantity' = Zero
  /\ UNCHANGED <<trade_amount, signal, price, pure>>
  /\ IF balances # <<>>
       THEN /\ calls' = <<>>
            /\ log' = <<>>
            /\ failed' = {}
            /\ pc' = "get_symbol_price"
            /\ UNCHANGED balances
       ELSE /\ calls' = <<"get_account">>
            /\ \/ \E fetched \in AccountBalances :
                    /\ balances' = fetched
                    /\ log' = <<>>
                    /\ failed' = {}
                    /\ pc' = "get_symbol_price"
               \/ /\ balances' = <<>>
                  /\ log' = <<"Error getting account balance">>
                  /\ failed' = {"balance"}
                  /\ pc' = "get_symbol_price"
               \/ /\ log' = <<>>
                  /\ failed' = {"balance"}
                  /\ pc' = "except"
                  /\ balances' = <<>>

\* line 155; the first statement of a cycle.  The locals balances,
\* current_price and quantity are dead here (each is assigned before it is
\* read again), so the values left by the previous cycle are dropped.
GetAccountBalance ==
  /\ pc = "get_account_balance"
  /\ calls' = <<"get_account">>
  /\ orders' = <<>>
  /\ sleeps' = 0
  /\ current_price' = None
  /\ quantity' = Zero
  /\ UNCHANGED <<trade_amount, signal, price, pure>>
  /\ \/ \E fetched \in AccountBalances :
          /\ balances' = fetched
          /\ log' = <<>>
          /\ failed' = {}
          /\ pc' = "get_symbol_price"
     \/ /\ balances' = <<>>
        /\ log' = <<"Error getting account balance">>
        /\ failed' = {"balance"}
        /\ pc' = "get_symbol_price"
     \/ /\ log' = <<>>
        /\ failed' = {"balance"}
        /\ pc' = "except"
        /\ balances' = <<>>

\* line 156
GetSymbolPrice ==
  /\ pc = "get_symbol_price"
  /\ calls' = Append(calls, "get_symbol_ticker")
  /\ UNCHANGED <<trade_amount, balances, signal, price, quantity, orders, sleeps, pure>>
  /\ \/ \E fetched \in SymbolPrices :
          /\ current_price' = fetched
          /\ pc' = "log_state"
          /\ UNCHANGED <<log, failed>>
     \/ /\ current_price' = None
        /\ log' = Append(log, "Error getting symbol price")
        /\ failed' = failed \cup {"price"}
        /\ pc' = "log_state"
     \/ /\ Raise("price")
        /\ UNCHANGED <<current_price, log>>

\* lines 158-159: formatting None with :.2f raises TypeError
LogState ==
  /\ pc = "log_state"
  /\ UNCHANGED <<trade_amount, locals, calls, orders, failed, sleeps, pure>>
  /\ IF current_price = None
       THEN pc' = "except" /\ UNCHANGED log
       ELSE /\ pc' = "calculate_indicators"
            /\ log' = log \o <<"Current price", "Current balances">>

\* a cycle that treats every signal other than Sell as Buy
CalculateIndicatorsHoldBuys ==
  /\ pc = "calculate_indicators"
  /\ calls' = Append(calls, "get_historical_klines")
  /\ UNCHANGED <<trade_amount, balances, current_price, price, quantity, orders, sleeps, pure>>
  /\ \/ \E klines \in LoopKlines :
          LET s == generate_signal(calculate_indicators(klines))
          IN  /\ signal' = <<s>>
              /\ UNCHANGED failed
              /\ IF s # -1
                   THEN IF FCmp(FreeOf(balances, "USDT"), trade_amount) >= 0
                          THEN pc' = "size_get_symbol_price" /\ UNCHANGED log
                          ELSE /\ pc' = "sleep"
                               /\ log' = Append(log, "Insufficient USDT balance for buy order")
                   ELSE IF s = -1
                   THEN IF FCmp(FreeOf(balances, base_currency), Zero) > 0
                          THEN /\ pc' = "sell_order"
                               /\ log' = Append(log, "Sell signal! Placing order")
                          ELSE /\ pc' = "sleep"
                               /\ log' = Append(log, "No balance to sell")
                   ELSE /\ pc' = "sleep"
                        /\ log' = Append(log, "No trading signal")
     \/ /\ log' = Append(log, "Error calculating indicators")
        /\ failed' = failed \cup {"candles"}
        /\ pc' = "sleep"
        /\ UNCHANGED signal
     \/ /\ Raise("candles")
        /\ UNCHANGED <<signal, log>>

\* lines 162-186 up to the first client call of the chosen branch
CalculateIndicators ==
  /\ pc = "calculate_indicators"
  /\ calls' = Append(calls, "get_historical_klines")
  /\ UNCHANGED <<trade_amount, balances, current_price, price, quantity, orders, sleeps, pure>>
  /\ \/ \E klines \in LoopKlines :
          LET s == generate_signal(calculate_indicators(klines))
          IN  /\ signal' = <<s>>
              /\ UNCHANGED failed
              /\ IF s = 1
                   THEN IF FCmp(FreeOf(balances, "USDT"), trade_amount) >= 0
                          THEN pc' = "size_get_symbol_price" /\ UNCHANGED log
                          ELSE /\ pc' = "sleep"
                               /\ log' = Append(log, "Insufficient USDT balance for buy order")
                   ELSE IF s = -1
                   THEN IF FCmp(FreeOf(balances, base_currency), Zero) > 0
                          THEN /\ pc' = "sell_order"
                               /\ log' = Append(log, "Sell signal! Placing order")
                          ELSE /\ pc' = "sleep"
                               /\ log' = Append(log, "No balance to sell")
                   ELSE /\ pc' = "sleep"
                        /\ log' = Append(log, "No trading signal")
     \/ /\ log' = Append(log, "Error calculating indicators")
        /\ failed' = failed \cup {"candles"}
        /\ pc' = "sleep"
        /\ UNCHANGED signal
     \/ /\ Raise("candles")
        /\ UNCHANGED <<signal, log>>

\* line 129, inside calculate_position_size; without a price the sizer
\* returns at line 144 and line 170 decides
SizeGetSymbolPrice ==
  /\ pc = "size_get_symbol_price"
  /\ calls' = Append(calls, "get_symbol_ticker")
  /\ UNCHANGED <<trade_amount, balances, current_price, signal, orders, sleeps, pure>>
  /\ \/ \E fetched \in SymbolPrices :
          /\ UNCHANGED <<log, failed>>
          /\ IF Truthy(fetched)
               THEN pc' = "get_symbol_info" /\ price' = fetched /\ UNCHANGED quantity
               ELSE /\ price' = None
                    /\ quantity' = calculate_position_size(trade_amount, fetched, None)
                    /\ pc' = IF FCmp(quantity', Zero) > 0 THEN "buy_order" ELSE "sleep"
     \/ /\ price' = None
        /\ log' = Append(log, "Error getting symbol price")
        /\ failed' = failed \cup {"sizing_price"}
        /\ quantity' = calculate_position_size(trade_amount, None, None)
        /\ pc' = IF FCmp(quantity', Zero) > 0 THEN "buy_order" ELSE "sleep"
     \/ /\ Raise("sizing_price")
        /\ UNCHANGED <<price, quantity, log>>

\* a buy branch that submits every quantity that is not negative
GetSymbolInfoNonNegative ==
  /\ pc = "get_symbol_info"
  /\ calls' = Append(calls, "get_symbol_info")
  /\ UNCHANGED <<trade_amount, balances, current_price, signal, orders, sleeps, pure>>
  /\ price' = None
  /\ \/ \E symbol_info \in SymbolInfoResponses :
          /\ quantity' = calculate_position_size(trade_amount, price, symbol_info)
          /\ UNCHANGED failed
          /\ IF FCmp(quantity', Zero) >= 0
               THEN /\ pc' = "buy_order"
                    /\ log' = Append(log, "Buy signal! Placing order")
               ELSE pc' = "sleep" /\ UNCHANGED log
     \/ /\ Raise("filters")
        /\ UNCHANGED <<quantity, log>>

\* lines 132-143 and 170-171; get_symbol_info is outside any try of the sizer
GetSymbolInfo ==
  /\ pc = "get_symbol_info"
  /\ calls' = Append(calls, "get_symbol_info")
  /\ UNCHANGED <<trade_amount, balances, current_price, signal, orders, sleeps, pure>>
  /\ price' = None
  /\ \/ \E symbol_info \in SymbolInfoResponses :
          /\ quantity' = calculate_position_size(trade_amount, price, symbol_info)
          /\ UNCHANGED failed
          /\ IF FCmp(quantity', Zero) > 0
               THEN /\ pc' = "buy_order"
                    /\ log' = Append(log, "Buy signal! Placing order")
               ELSE pc' = "sleep" /\ UNCHANGED log
     \/ /\ Raise("filters")
        /\ UNCHANGED <<quantity, log>>

\* place_order that tries again after a rejected order
PlaceOrderRetry ==
  /\ pc \in {"buy_order", "sell_order"}
  /\ calls' = Append(calls, "create_order")
  /\ orders' = Append(orders,
                 IF pc = "buy_order"
                   THEN [side |-> "BUY", quantity |-> quantity]
                   ELSE [side |-> "SELL", quantity |-> FreeOf(balances, base_currency)])
  /\ UNCHANGED <<trade_amount, locals, sleeps, pure>>
  /\ \/ /\ log' = Append(log, "Placed order")
        /\ pc' = "sleep"
        /\ UNCHANGED failed
     \/ /\ log' = Append(log, "Error placing order")
        /\ failed' = failed \cup {"order"}
        /\ pc' = IF Len(orders) < 2 THEN pc ELSE "sleep"
     \/ /\ Raise("order")
        /\ UNCHANGED log

\* place_order, lines 112-125, called at line 172 or 181
PlaceOrder ==
  /\ pc \in {"buy_order", "sell_order"}
  /\ calls' = Append(calls, "create_order")
  /\ orders' = Append(orders,
                 IF pc = "buy_order"
                   THEN [side |-> "BUY", quantity |-> quantity]
                   ELSE [side |-> "SELL", quantity |-> FreeOf(balances, base_currency)])
  /\ UNCHANGED <<trade_amount, locals, sleeps, pure>>
  /\ \/ /\ log' = Append(log, "Placed order")
        /\ pc' = "sleep"
        /\ UNCHANGED failed
     \/ /\ log' = Append(log, "Error placing order")
        /\ failed' = failed \cup {"order"}
        /\ pc' = "sleep"
     \/ /\ Raise("order")
        /\ UNCHANGED log

\* line 188
Sleep ==
  /\ pc = "sleep"
  /\ sleeps' = sleeps + 1
  /\ pc' = "get_account_balance"
  /\ UNCHANGED <<trade_amount, locals, calls, orders, log, failed, pure>>

\* line 192: the message built from the value of the local signal
SignalMessage(sig) ==
  IF sig = 1 THEN "Signal was 1"
  ELSE IF sig = -1 THEN "Signal was -1"
  ELSE "Signal was 0"

\* a handler that can only report a signal of the cycle that failed
ExceptSignalOfCycle ==
  /\ pc = "except"
  /\ UNCHANGED <<trade_amount, locals, calls, orders, failed, sleeps, pure>>
  /\ IF signal = <<>> \/ ~(\E i \in 1..Len(calls) : calls[i] = "get_historical_klines")
       THEN /\ pc' = "crashed"
            /\ log' = Append(log, "Error in main loop")
       ELSE /\ pc' = "except_sleep"
            /\ log' = log \o <<"Error in main loop", SignalMessage(signal[1])>>

\* lines 190-192: reading the unbound local signal raises UnboundLocalError
\* inside the handler, which leaves run_bot
Except ==
  /\ pc = "except"
  /\ UNCHANGED <<trade_amount, locals, calls, orders, failed, sleeps, pure>>
  /\ IF signal = <<>>
       THEN /\ pc' = "crashed"
            /\ log' = Append(log, "Error in main loop")
       ELSE /\ pc' = "except_sleep"
            /\ log' = log \o <<"Error in main loop", SignalMessage(signal[1])>>

\* line 193
ExceptSleep ==
  /\ pc = "except_sleep"
  /\ sleeps' = sleeps + 1
  /\ pc' = "get_account_balance"
  /\ UNCHANGED <<trade_amount, locals, calls, orders, log, failed, pure>>

Next ==
  \/ GetAccountBalance
  \/ GetSymbolPrice
  \/ LogState
  \/ CalculateIndicators
  \/ SizeGetSymbolPrice
  \/ GetSymbolInfo
  \/ PlaceOrder
  \/ Sleep
  \/ Except
  \/ ExceptSleep

Spec == Init /\ [][Next]_vars

(***************************************************************************)
(* generate_signal applied on its own to a DataFrame, or to None.          *)
(***************************************************************************)
InitSignal ==
  /\ pc = "generate_signal"
  /\ arg \in {None} \cup {[klines |-> k] : k \in KlineInputs}
  /\ ret = None
  /\ trade_amount = Zero
  /\ balances = <<>>
  /\ current_price = None
  /\ signal = <<>>
  /\ price = None
  /\ quantity = Zero
  /\ calls = <<>>
  /\ orders = <<>>
  /\ log = <<>>
  /\ failed = {}
  /\ sleeps = 0

GenerateSignal ==
  /\ pc = "generate_signal"
  /\ ret' = [signal |-> generate_signal(IF arg = None THEN None
                                         ELSE calculate_indicators(arg.klines))]
  /\ pc' = "returned"
  /\ UNCHANGED <<trade_amount, locals, calls, orders, log, failed, sleeps, arg>>

SpecSignal == InitSignal /\ [][GenerateSignal]_vars

(***************************************************************************)
(* calculate_position_size applied on its own: arg holds the amount and    *)
(* the two client responses (ticker None: BinanceAPIException).            *)
(***************************************************************************)
SizerAmounts == {-100, 0, 1, 3, 27, 100}

SizerTickers ==
  {None} \cup {[price |-> p] : p \in {Dec(0, 0), Dec(3, 0), Dec(10, 0), Dec(100000, 0)}}

SizerSymbolInfos ==
  {[filters |-> f] :
     f \in {<<>>, <<PriceFilter, LotSize(Dec(1, 1))>>, <<LotSize(Dec(1, 2))>>,
            <<LotSize(Dec(1, 5))>>, <<LotSize(Dec(1, 0))>>}}

InitSizer ==
  /\ pc = "calculate_position_size"
  /\ arg \in {[usdt_amount |-> n, ticker |-> t, symbol_info |-> i] :
                n \in SizerAmounts, t \in SizerTickers, i \in SizerSymbolInfos}
  /\ ret = None
  /\ trade_amount = Zero
  /\ balances = <<>>
  /\ current_price = None
  /\ signal = <<>>
  /\ price = None
  /\ quantity = Zero
  /\ calls = <<>>
  /\ orders = <<>>
  /\ log = <<>>
  /\ failed = {}
  /\ sleeps = 0

CalculatePositionSize ==
  /\ pc = "calculate_position_size"
  /\ LET fetched == IF arg.ticker = None THEN None ELSE ParseFloat(arg.ticker.price)
     IN  ret' = [quantity  |-> calculate_position_size(
                                 IntToFloat(PyInt(arg.usdt_amount)), fetched,
                                 arg.symbol_info),
                 price     |-> fetched,
                 step_size |-> StepSizeOf(arg.symbol_info.filters, 1)]
  /\ pc' = "returned"
  /\ UNCHANGED <<trade_amount, locals, calls, orders, log, failed, sleeps, arg>>

SpecSizer == InitSizer /\ [][CalculatePositionSize]_vars

(***************************************************************************)
(* Properties.                                                             *)
(***************************************************************************)
InLog(m)     == \E i \in 1..Len(log) : log[i] = m
Called(c)    == \E i \in 1..Len(calls) : calls[i] = c
CallCount(c) == Cardinality({i \in 1..Len(calls) : calls[i] = c})

\* the current cycle fetched its candles and its signal is Buy
BuyDecided ==
  /\ Called("get_historical_klines")
  /\ "candles" \notin failed
  /\ signal = <<1>>

\* the free USDT of the current cycle is below the trade amount
UsdtShort ==
  FCmp(IF "USDT" \in DOMAIN balances THEN balances["USDT"].free ELSE Zero,
       trade_amount) < 0

\* C1: run_bot never terminates on error: whatever the client calls do, in
\* any cycle, no reachable state of the loop is a terminated one.
NeverTerminatesOnError == pc # "crashed"

\* C2: when the price fetch at the start of a cycle returns no price, in any
\* cycle including the first, the loop does not crash and is back at the
\* start of the next cycle after exactly one sleep, the error logged.
PriceFetchFailureResumes ==
  (InLog("Error getting symbol price") /\ ~Called("get_historical_klines")) =>
     /\ pc # "crashed"
     /\ pc = "get_account_balance" => (sleeps = 1 /\ InLog("Error in main loop"))

\* C3: a cycle in which the balance fetch, a price fetch, the candle fetch or
\* the symbol-filter fetch failed submits no order, whatever the signal and
\* the trade amount.
FailedFetchIsHold ==
  (failed \cap {"balance", "price", "candles", "sizing_price", "filters"} # {})
     => orders = <<>>

\* the balance fetch failed, the signal was Buy, a trade amount <= 0 passed
\* the balance guard, the sizer ran to its end, and the cycle is over
FailedFetchIsHoldWitness ==
  /\ "balance" \in failed
  /\ BuyDecided
  /\ Called("get_symbol_info")
  /\ pc = "sleep"
  /\ orders = <<>>

\* C4: fewer than 50 candles, or no indicator series at all, give Hold
\* whatever the prices are; Buy or Sell needs at least 50 candles.
ShortSeriesIsHold ==
  pc = "returned" =>
     LET short == IF arg = None THEN TRUE ELSE Len(arg.klines) < 50
     IN  /\ short => ret.signal = 0
         /\ ret.signal # 0 => ~short

\* 49 candles ending in a dip and a jump were answered with Hold
ShortSeriesIsHoldWitness ==
  /\ pc = "returned"
  /\ arg # None
  /\ Len(arg.klines) = 49
  /\ arg.klines[48] < arg.klines[47]
  /\ arg.klines[49] > arg.klines[47]
  /\ ret.signal = 0

\* the averages of the last two rows of n > 50 closes, over a common
\* denominator: short < long iff 50 * sum20 < 20 * sum50
PrevShort(k) == SMA50Window * SumRange(k, Len(k) - SMA20Window, Len(k) - 1)
PrevLong(k)  == SMA20Window * SumRange(k, Len(k) - SMA50Window, Len(k) - 1)
CurrShort(k) == SMA50Window * SumRange(k, Len(k) - SMA20Window + 1, Len(k))
CurrLong(k)  == SMA20Window * SumRange(k, Len(k) - SMA50Window + 1, Len(k))

\* C5: with both of the last two snapshots defined, the signal is Buy iff
\* the short average was below the long one and is now above it, Sell iff it
\* was above and is now below, and Hold in every other case, equality at
\* either snapshot included.
CrossoverRule ==
  (pc = "returned" /\ arg # None /\ Len(arg.klines) > SMA50Window) =>
     LET k    == arg.klines
         buy  == PrevShort(k) < PrevLong(k) /\ CurrShort(k) > CurrLong(k)
         sell == PrevShort(k) > PrevLong(k) /\ CurrShort(k) < CurrLong(k)
     IN  /\ ret.signal = 1 <=> buy
         /\ ret.signal = -1 <=> sell
         /\ ret.signal = 0 <=> (~buy /\ ~sell)

\* the averages were equal at the previous row, the short one is above at
\* the current row, and the answer was Hold
CrossoverRuleWitness ==
  /\ pc = "returned"
  /\ arg # None
  /\ Len(arg.klines) > SMA50Window
  /\ PrevShort(arg.klines) = PrevLong(arg.klines)
  /\ CurrShort(arg.klines) > CurrLong(arg.klines)
  /\ ret.signal = 0

\* C6: the signal is Hold whenever one of the last two snapshots lacks an
\* average, that is with at most 50 candles: with exactly 50 the previous
\* row has no long average though the current row has one.
UndefinedSnapshotIsHold ==
  (pc = "returned" /\ arg # None /\ Len(arg.klines) <= SMA50Window)
     => ret.signal = 0

\* exactly 50 candles ending in a dip and a jump were answered with Hold
UndefinedSnapshotIsHoldWitness ==
  /\ pc = "returned"
  /\ arg # None
  /\ Len(arg.klines) = SMA50Window
  /\ arg.klines[49] < arg.klines[48]
  /\ arg.klines[50] > arg.klines[48]
  /\ ret.signal = 0

\* the decimal step size the exchange gave, or the default 0.00001
RECURSIVE StepDecOf(_, _)
StepDecOf(filters, i) ==
  IF i > Len(filters) THEN Dec(1, 5)
  ELSE IF filters[i].filterType = "LOT_SIZE" THEN filters[i].stepSize
  ELSE StepDecOf(filters, i + 1)

\* floor((N / P) / S) in exact arithmetic on the integer N and the decimals
\* P and S, as a signed integer
IdealSteps(N, P, S) ==
  LET mag == BFromNat(IF N < 0 THEN -N ELSE N)
      dm  == BDivMod(BMul(mag, BPow10(P.k + S.k)),
                     BMul(BFromNat(P.d), BFromNat(S.d)))
  IN  IF N >= 0 THEN [s |-> 0, n |-> dm[1]]
      ELSE [s |-> 1, n |-> IF dm[2] = <<>> THEN dm[1] ELSE BAdd(dm[1], <<1>>)]

\* C7: for any notional N, price P > 0 and step S > 0 the quantity returned
\* is non-negative and is floor((N / P) / S) steps of S (hence a multiple of
\* S with quantity * P <= N); the product with S taken as the code takes it.
SizerContract ==
  (pc = "returned" /\ arg.ticker # None /\ Truthy(ret.price)) =>
     /\ FCmp(ret.quantity, Zero) >= 0
     /\ ret.quantity =
          FMul(IntToFloat(IdealSteps(arg.usdt_amount, arg.ticker.price,
                                     StepDecOf(arg.symbol_info.filters, 1))),
               ret.step_size)

\* C8: quantizing a quantity the sizer produced with step S once more with
\* step S returns the same quantity.
RequantizeIdempotent ==
  (pc = "returned" /\ Truthy(ret.price))
     => Quantize(ret.quantity, ret.step_size) = ret.quantity

\* C9: without a usable price the sizer returns 0, and a Buy cycle whose
\* sizing gave zero quantity submits no order and logs a skip reason, that
\* is something after the two state lines.
ZeroQuantitySkipIsLogged ==
  /\ (BuyDecided /\ CallCount("get_symbol_ticker") = 2
        /\ ~Called("get_symbol_info") /\ pc \in {"sleep", "buy_order"})
       => quantity = Zero
  /\ (BuyDecided /\ ~UsdtShort /\ pc = "sleep" /\ quantity = Zero)
       => (orders = <<>> /\ log[Len(log)] # "Current balances")

\* C10: on a Buy signal with the free USDT of the cycle below the trade
\* amount (the asset missing included), the skip is logged and neither the
\* sizer nor the order call is made in the cycle.
InsufficientBalanceSkipsBuy ==
  (BuyDecided /\ UsdtShort) =>
     /\ InLog("Insufficient USDT balance for buy order")
     /\ CallCount("get_symbol_ticker") = 1
     /\ ~Called("get_symbol_info")
     /\ ~Called("create_order")
     /\ orders = <<>>

\* a Buy cycle ended with USDT missing from the balances
InsufficientBalanceSkipsBuyWitness ==
  /\ BuyDecided
  /\ "USDT" \notin DOMAIN balances
  /\ UsdtShort
  /\ pc = "sleep"

\* the current cycle fetched its candles and its signal is Sell
SellDecided ==
  /\ Called("get_historical_klines")
  /\ "candles" \notin failed
  /\ signal = <<-1>>

\* the free BTC of the current cycle
BaseFree == IF "BTC" \in DOMAIN balances THEN balances["BTC"].free ELSE Zero

\* C11: on a Sell signal a market sell is submitted iff the free base
\* balance fetched in the cycle is > 0, for that whole balance; otherwise no
\* order is submitted and the skip is logged.
SellAllOrSkip ==
  (SellDecided /\ pc # "sell_order") =>
     IF FCmp(BaseFree, Zero) > 0
       THEN orders = <<[side |-> "SELL", quantity |-> BaseFree]>>
       ELSE orders = <<>> /\ InLog("No balance to sell")

\* a Sell cycle ended with the whole free base balance submitted
SellAllOrSkipWitness ==
  /\ SellDecided
  /\ pc = "sleep"
  /\ Len(orders) = 1
  /\ orders[1].side = "SELL"
  /\ orders[1].quantity = BaseFree
  /\ FCmp(BaseFree, Zero) > 0

\* q is k * S for a whole number k, the product taken in floats
IsStepMultiple(q, S) ==
  LET k == Trunc(FDiv(q, S))
  IN  \/ q = FMul(IntToFloat(k), S)
      \/ q = FMul(IntToFloat([s |-> 0, n |-> BAdd(k.n, <<1>>)]), S)

\* C12: every quantity submitted, Buy or Sell, is a multiple of the step
\* size of the symbol, whichever of its step sizes the exchange reports.
OrdersAlignedToStep ==
  \A i \in 1..Len(orders) :
     \E info \in SymbolInfoResponses :
        IsStepMultiple(orders[i].quantity, StepSizeOf(info.filters, 1))

\* C13: within one cycle at most one order is submitted, and an order the
\* exchange rejected is not submitted again in that cycle.
AtMostOneOrderPerCycle ==
  /\ Len(orders) <= 1
  /\ CallCount("create_order") = Len(orders)
  /\ "order" \in failed => pc \notin {"buy_order", "sell_order"}

AtMostOneOrderPerCycleWitness ==
  /\ "order" \in failed
  /\ InLog("Error placing order")
  /\ pc = "sleep"
  /\ Len(orders) = 1

\* C14: an order exists in a cycle only after that cycle's candles were
\* fetched and gave a signal; a BUY order only under a Buy signal, a SELL
\* order only under a Sell signal, and no order under Hold.
OrdersFollowSignal ==
  /\ \A i \in 1..Len(orders) :
        /\ Called("get_historical_klines")
        /\ "candles" \notin failed
        /\ orders[i].side = "BUY"  => signal = <<1>>
        /\ orders[i].side = "SELL" => signal = <<-1>>
        /\ orders[i].side \in {"BUY", "SELL"}
  /\ (Called("get_historical_klines") /\ "candles" \notin failed /\ signal = <<0>>)
        => (orders = <<>> /\ ~Called("create_order"))

OrdersFollowSignalWitness ==
  /\ Called("get_historical_klines")
  /\ "candles" \notin failed
  /\ signal = <<0>>
  /\ InLog("No trading signal")
  /\ pc = "sleep"

\* a cycle has run and is over: the loop is back at its first statement, or
\* run_bot has been left
CycleOver ==
  \/ pc = "get_account_balance" /\ calls # <<>>
  \/ pc = "crashed"

\* C15: every cycle ends with exactly one sleep, whatever its outcome: while
\* a cycle runs it has not slept, and once it is over it has slept once.
OneSleepPerCycle ==
  /\ sleeps <= 1
  /\ ~CycleOver => sleeps = 0
  /\ CycleOver => sleeps = 1

\* C15 without the cycles that leave run_bot
OneSleepPerCompletedCycle ==
  /\ sleeps <= 1
  /\ ~CycleOver => sleeps = 0
  /\ (CycleOver /\ pc # "crashed") => sleeps = 1

\* close[lo] + ... + close[hi], added from the oldest candle on
RECURSIVE WindowTotal(_, _, _)
WindowTotal(close, lo, hi) ==
  IF lo > hi THEN 0 ELSE close[lo] + WindowTotal(close, lo + 1, hi)

\* the value v of an average column is the arithmetic mean of the window
\* closes ending at row i (rows count from 1)
IsTrailingMean(v, close, window, i) ==
  /\ v # NaN
  /\ v.n > 0
  /\ v.sum * window = WindowTotal(close, i - window + 1, i) * v.n

\* row i of the frame built from the candles up to i only
PrefixRow(klines, i) == calculate_indicators(SubSeq(klines, 1, i)).rows[i]

\* C16: for both windows and every row, the average is undefined on the
\* first window-1 rows and is otherwise the arithmetic mean of the window
\* closes ending at that row; it is the value the candles up to that row
\* give on their own (no look-ahead).
TrailingMeansOnly ==
  (pc = "returned" /\ arg # None) =>
     LET df == calculate_indicators(arg.klines)
     IN  /\ Len(df.rows) = Len(arg.klines)
         /\ \A i \in 1..Len(df.rows) :
               /\ IF i < SMA20Window
                    THEN df.rows[i].SMA20 = NaN
                    ELSE IsTrailingMean(df.rows[i].SMA20, arg.klines, SMA20Window, i)
               /\ IF i < SMA50Window
                    THEN df.rows[i].SMA50 = NaN
                    ELSE IsTrailingMean(df.rows[i].SMA50, arg.klines, SMA50Window, i)
               /\ df.rows[i] = PrefixRow(arg.klines, i)

TrailingMeansOnlyWitness ==
  /\ pc = "returned"
  /\ arg # None
  /\ Len(arg.klines) > SMA50Window
  /\ arg.klines[1] # arg.klines[Len(arg.klines)]
  /\ calculate_indicators(arg.klines).rows[SMA50Window].SMA50 # NaN
  /\ calculate_indicators(arg.klines).rows[SMA50Window - 1].SMA50 = NaN

IsPrefix(s, t) == Len(s) <= Len(t) /\ \A i \in 1..Len(s) : s[i] = t[i]

\* the client calls of a cycle that sizes and buys, and of one that sells
BuyCycleCalls ==
  <<"get_account", "get_symbol_ticker", "get_historical_klines",
    "get_symbol_ticker", "get_symbol_info", "create_order">>

SellCycleCalls ==
  <<"get_account", "get_symbol_ticker", "get_historical_klines", "create_order">>

\* C17: the client calls of a cycle come in a fixed order: balances, price,
\* candles, then the sizing price and the symbol filters, then the order.  An
\* order is submitted only after the balances and the candles of its own cycle
\* were fetched, and it is guarded by the balances fetched in that cycle.
CallsInFixedOrder ==
  /\ IsPrefix(calls, BuyCycleCalls) \/ IsPrefix(calls, SellCycleCalls)
  /\ Called("create_order") =>
        /\ Called("get_account")
        /\ Called("get_historical_klines")
        /\ failed \cap {"balance", "candles"} = {}
        /\ balances \in AccountBalances
        /\ signal = <<1>>  => FCmp(FreeOf(balances, "USDT"), trade_amount) >= 0
        /\ signal = <<-1>> => FCmp(FreeOf(balances, "BTC"), Zero) > 0

CallsInFixedOrderWitness ==
  /\ calls = BuyCycleCalls
  /\ Len(orders) = 1
  /\ pc = "sleep"

\* C18: every submitted order has a strictly positive quantity, whatever the
\* trade amount (zero and negative included) and the step size.
OrdersArePositive ==
  \A i \in 1..Len(orders) : FCmp(orders[i].quantity, Zero) > 0

\* a Buy cycle with a non-positive trade amount whose sizer ran to the end
OrdersArePositiveWitness ==
  /\ BuyDecided
  /\ FCmp(trade_amount, Zero) <= 0
  /\ Called("get_symbol_info")
  /\ "filters" \notin failed
  /\ FCmp(quantity, Zero) <= 0
  /\ orders = <<>>
  /\ pc = "sleep"

\* C19: once the local signal has been assigned, it stays assigned and
\* run_bot is never left: the handler logs the failure and the value signal
\* holds at that time, then sleeps once and starts the next cycle.
HandlerRecoversOnceSignalAssigned ==
  [][signal # <<>> =>
       /\ signal' # <<>>
       /\ pc' # "crashed"
       /\ pc = "except" =>
             /\ pc' = "except_sleep"
             /\ Len(log') = Len(log) + 2
             /\ SubSeq(log', 1, Len(log)) = log
             /\ log'[Len(log) + 1] = "Error in main loop"
             /\ log'[Len(log) + 2] =
                   (CASE signal = <<1>>  -> "Signal was 1"
                      [] signal = <<-1>> -> "Signal was -1"
                      [] signal = <<0>>  -> "Signal was 0")
       /\ pc = "except_sleep" =>
             /\ sleeps = 0
             /\ sleeps' = 1
             /\ pc' = "get_account_balance"]_vars

\* the handler has logged a signal that an earlier cycle assigned
HandlerRecoversOnceSignalAssignedWitness ==
  /\ pc = "except_sleep"
  /\ signal # <<>>
  /\ ~Called("get_historical_klines")
  /\ InLog("Error in main loop")
  /\ \E m \in {"Signal was 1", "Signal was -1", "Signal was 0"} : InLog(m)

====
